---- MODULE Spec2Model ----
(***************************************************************************)
(* Loan ledger backend: loans, ledger entries, the entry-posting           *)
(* transaction and the recycle bin (soft delete, restore, permanent        *)
(* delete).  The database holds two tables, `loans` and `entries`; every   *)
(* HTTP handler is a sequence of database calls separated by `await`, so   *)
(* handlers of concurrent requests interleave between their calls.  A      *)
(* prisma.$transaction block commits its writes in one step.               *)
(***************************************************************************)
EXTENDS Integers, FiniteSets, Sequences, TLC

\* ---------------------------------------------------------------- bounds
\* Rows ever inserted in each table (ids are autoincrement, never reused).
MaxLoans == 1
MaxEntries == 2
\* Last reading of the wall clock (new Date()).
MaxTime == 2

\* In-flight requests: each slot runs one handler at a time.
Procs == {"r1", "r2"}

\* A column holding NULL, and a request field that is absent.
NULL == 0
Undefined == -1

\* Request inputs.  Amounts and rates are multiples of 10, so that
\* balanceAmount * interest / 100 is exact in the integers.
\* Bodies of POST /api/loans that pass the schema: balanceAmount is optional.
CreateBodies ==
  {[loanDate |-> 0, loanAmount |-> 100, balanceAmount |-> Undefined,
    interest |-> 10, balanceInterest |-> 0],
   [loanDate |-> 0, loanAmount |-> 100, balanceAmount |-> 50,
    interest |-> 10, balanceInterest |-> 5]}

\* Bodies of PUT /api/loans/:id that pass the schema (at least one field).
UpdateBodies ==
  {[loanAmount |-> Undefined, balanceAmount |-> 50, interest |-> Undefined,
    balanceInterest |-> 0]}

\* Bodies of POST /api/entries that pass the schema, less the loanId: a part
\* payment, and an overpayment of both the principal and the interest.
EntryBodies ==
  {[entryDate |-> 2, receivedAmount |-> 10, receivedInterest |-> 0],
   [entryDate |-> 1, receivedAmount |-> 150, receivedInterest |-> 30]}

\* 30 * 24 * 60 * 60 * 1000 ms, with dates counted in days.
ThirtyDays == 30

LoanIds == 1..MaxLoans
EntryIds == 1..MaxEntries

Max(a, b) == IF a >= b THEN a ELSE b

VARIABLES
  loans,        \* table Loan: id -> row
  entries,      \* table Entry: id -> row
  nextLoanId,   \* autoincrement counter of Loan
  nextEntryId,  \* autoincrement counter of Entry
  now,          \* the wall clock
  pc,           \* per request slot: where its handler stands
  req,          \* per request slot: the handler's local variables
  response      \* the last HTTP response sent

vars == <<loans, entries, nextLoanId, nextEntryId, now, pc, req, response>>

\* ------------------------------------------------------- pure functions

\* The calculator without the floor at zero.
calculateUpdatedLoanBalancesNoFloor(loan, receivedAmount, receivedInterest) ==
  LET interestOnBalance == (loan.balanceAmount * loan.interest) \div 100
      totalInterestBeforePayment == loan.balanceInterest + interestOnBalance
  IN [newBalanceAmount |-> loan.balanceAmount - receivedAmount,
      newBalanceInterest |-> totalInterestBeforePayment - receivedInterest,
      interestAmount |-> interestOnBalance,
      totalInterestBeforePayment |-> totalInterestBeforePayment,
      interestOnBalance |-> interestOnBalance]

\* The calculator with the pending interest counted twice.
calculateUpdatedLoanBalancesTwice(loan, receivedAmount, receivedInterest) ==
  LET interestOnBalance == (loan.balanceAmount * loan.interest) \div 100
      newInterestAmount == interestOnBalance + loan.balanceInterest
      totalInterestBeforePayment == loan.balanceInterest + newInterestAmount
  IN [newBalanceAmount |-> Max(0, loan.balanceAmount - receivedAmount),
      newBalanceInterest |-> Max(0, totalInterestBeforePayment - receivedInterest),
      interestAmount |-> newInterestAmount,
      totalInterestBeforePayment |-> totalInterestBeforePayment,
      interestOnBalance |-> interestOnBalance]

\* entriesController.js calculateUpdatedLoanBalances
calculateUpdatedLoanBalances(loan, receivedAmount, receivedInterest) ==
  LET currentBalanceAmount == loan.balanceAmount
      currentBalanceInterest == loan.balanceInterest
      interestRate == loan.interest
      interestOnBalance == (currentBalanceAmount * interestRate) \div 100
      newInterestAmount == interestOnBalance
      totalInterestBeforePayment == currentBalanceInterest + newInterestAmount
      remainingBalanceInterest == Max(0, totalInterestBeforePayment - receivedInterest)
      newBalanceAmount == Max(0, currentBalanceAmount - receivedAmount)
  IN [newBalanceAmount |-> newBalanceAmount,
      newBalanceInterest |-> remainingBalanceInterest,
      interestAmount |-> newInterestAmount,
      totalInterestBeforePayment |-> totalInterestBeforePayment,
      interestOnBalance |-> interestOnBalance]

\* utils/loanCalculations.js calculateUpdatedLoanBalances
utilsCalculateUpdatedLoanBalances(loan, receivedAmount, receivedInterest) ==
  LET currentBalanceAmount == loan.balanceAmount
      currentBalanceInterest == loan.balanceInterest
      interestRate == loan.interest
      interestOnBalance == (currentBalanceAmount * interestRate) \div 100
      newInterestAmount == interestOnBalance + currentBalanceInterest
      totalInterestBeforePayment == currentBalanceInterest + newInterestAmount
      remainingBalanceInterest == Max(0, totalInterestBeforePayment - receivedInterest)
      newBalanceAmount == Max(0, currentBalanceAmount - receivedAmount)
  IN [newBalanceAmount |-> newBalanceAmount,
      newBalanceInterest |-> remainingBalanceInterest,
      interestAmount |-> newInterestAmount,
      totalInterestBeforePayment |-> totalInterestBeforePayment,
      interestOnBalance |-> interestOnBalance]

\* ------------------------------------------------------------- helpers

\* An update payload with no field.
NoBody ==
  [loanAmount |-> Undefined, balanceAmount |-> Undefined, interest |-> Undefined,
   balanceInterest |-> Undefined]

\* The locals of a handler that is not running.
NoReq ==
  [loanId |-> 0, entryId |-> 0, entryDate |-> 0,
   receivedAmount |-> 0, receivedInterest |-> 0,
   loan |-> [balanceAmount |-> 0, interest |-> 0, balanceInterest |-> 0],
   entriesLength |-> 0, body |-> NoBody,
   loanDate |-> 0, newInterestAmount |-> 0, totalInterestAfterNewPeriod |-> 0,
   nextEntryDate |-> 0, totalInterestAmount |-> 0, rows |-> <<>>]

Respond(op, status) == status

\* Rows of Entry that belong to loan id.
EntriesOf(id) == {e \in DOMAIN entries : entries[e].loanId = id}

\* A table without the rows in gone.
Without(table, gone) == [k \in (DOMAIN table) \ gone |-> table[k]]

\* No handler is running.
AllIdle == \A p \in Procs : pc[p] = "idle"

\* A new request takes the first free slot.
Free(p) == pc[p] = "idle" /\ (p = "r2" => pc["r1"] # "idle")

\* The handler of slot p ends with a response.
Finish(p, op, status) ==
  /\ pc' = [pc EXCEPT ![p] = "idle"]
  /\ req' = [req EXCEPT ![p] = NoReq]
  /\ response' = Respond(op, status)

\* ---------------------------------------------------------------- Init

Init ==
  /\ loans = <<>>
  /\ entries = <<>>
  /\ nextLoanId = 1
  /\ nextEntryId = 1
  /\ now = 1
  /\ pc = [p \in Procs |-> "idle"]
  /\ req = [p \in Procs |-> NoReq]
  /\ response = 0

\* The wall clock advances.
Tick ==
  /\ now < MaxTime
  /\ now' = now + 1
  /\ UNCHANGED <<loans, entries, nextLoanId, nextEntryId, pc, req, response>>


\* ------------------------------------------------------ loanController

\* The row prisma.loan.create inserts for a validated body.
NewLoan(body) ==
  [loanDate |-> body.loanDate,
   loanAmount |-> body.loanAmount,
   balanceAmount |-> IF body.balanceAmount # Undefined
                     THEN body.balanceAmount ELSE body.loanAmount,
   interest |-> body.interest,
   balanceInterest |-> body.balanceInterest,
   totalInterestAmount |-> body.balanceInterest,
   deletedAt |-> NULL]

\* POST /api/loans
createLoan(body) ==
  /\ nextLoanId <= MaxLoans
  /\ loans' = loans @@ (nextLoanId :> NewLoan(body))
  /\ nextLoanId' = nextLoanId + 1
  /\ response' = Respond("createLoan", 201)
  /\ UNCHANGED <<entries, nextEntryId, now, pc, req>>

\* PUT /api/loans/:id, up to the existence check
updateLoan_findLoan(p, id, body) ==
  /\ Free(p)
  /\ IF id \notin DOMAIN loans
     THEN Finish(p, "updateLoan", 404)
     ELSE /\ pc' = [pc EXCEPT ![p] = "updateLoan_update"]
          /\ req' = [req EXCEPT ![p] = [NoReq EXCEPT !.loanId = id, !.body = body]]
          /\ UNCHANGED response
  /\ UNCHANGED <<loans, entries, nextLoanId, nextEntryId, now>>

\* A loan row with the fields of an update payload written over it.
ApplyUpdateData(row, body) ==
  [row EXCEPT
     !.loanAmount = IF body.loanAmount # Undefined THEN body.loanAmount ELSE @,
     !.balanceAmount = IF body.balanceAmount # Undefined THEN body.balanceAmount ELSE @,
     !.interest = IF body.interest # Undefined THEN body.interest ELSE @,
     !.balanceInterest = IF body.balanceInterest # Undefined THEN body.balanceInterest ELSE @,
     !.totalInterestAmount = IF body.balanceInterest # Undefined THEN body.balanceInterest ELSE @]

\* PUT /api/loans/:id, the update
updateLoan_update(p) ==
  /\ pc[p] = "updateLoan_update"
  /\ LET id == req[p].loanId IN
     IF id \notin DOMAIN loans
     THEN /\ Finish(p, "updateLoan", 500)
          /\ UNCHANGED loans
     ELSE /\ loans' = [loans EXCEPT ![id] = ApplyUpdateData(@, req[p].body)]
          /\ Finish(p, "updateLoan", 200)
  /\ UNCHANGED <<entries, nextLoanId, nextEntryId, now>>

\* The lookup of deleteLoan without the test of deletedAt.
deleteLoan_findLoanUnchecked(p, id) ==
  /\ Free(p)
  /\ IF id \notin DOMAIN loans
     THEN Finish(p, "deleteLoan", 404)
     ELSE /\ pc' = [pc EXCEPT ![p] = "deleteLoan_transaction"]
          /\ req' = [req EXCEPT ![p] = [NoReq EXCEPT !.loanId = id]]
          /\ UNCHANGED response
  /\ UNCHANGED <<loans, entries, nextLoanId, nextEntryId, now>>

\* DELETE /api/loans/:id, up to the checks
deleteLoan_findLoan(p, id) ==
  /\ Free(p)
  /\ IF id \notin DOMAIN loans
     THEN Finish(p, "deleteLoan", 404)
     ELSE IF loans[id].deletedAt # NULL
     THEN Finish(p, "deleteLoan", 400)
     ELSE /\ pc' = [pc EXCEPT ![p] = "deleteLoan_transaction"]
          /\ req' = [req EXCEPT ![p] = [NoReq EXCEPT !.loanId = id]]
          /\ UNCHANGED response
  /\ UNCHANGED <<loans, entries, nextLoanId, nextEntryId, now>>

\* The cascade of deleteLoan with the entries stamped one tick late.
SoftDeleteEntriesLate(id, stamp) ==
  [e \in DOMAIN entries |->
     IF entries[e].loanId = id /\ entries[e].deletedAt = NULL
     THEN [entries[e] EXCEPT !.deletedAt = stamp + 1] ELSE entries[e]]

\* prisma.entry.updateMany({where: {loanId, deletedAt: null}, data: {deletedAt}})
SoftDeleteEntries(id, stamp) ==
  [e \in DOMAIN entries |->
     IF entries[e].loanId = id /\ entries[e].deletedAt = NULL
     THEN [entries[e] EXCEPT !.deletedAt = stamp] ELSE entries[e]]

\* The transaction of deleteLoan followed by a recalculation of the loan's
\* balances over the entries that are still live (none after the cascade).
deleteLoan_transactionRecalculated(p) ==
  /\ pc[p] = "deleteLoan_transaction"
  /\ LET id == req[p].loanId IN
     IF id \notin DOMAIN loans
     THEN /\ Finish(p, "deleteLoan", 500)
          /\ UNCHANGED <<loans, entries>>
     ELSE /\ entries' = SoftDeleteEntries(id, now)
          /\ loans' = [loans EXCEPT ![id].deletedAt = now,
                                    ![id].balanceAmount = loans[id].loanAmount,
                                    ![id].balanceInterest = 0]
          /\ Finish(p, "deleteLoan", 200)
  /\ UNCHANGED <<nextLoanId, nextEntryId, now>>

\* DELETE /api/loans/:id, the transaction
deleteLoan_transaction(p) ==
  /\ pc[p] = "deleteLoan_transaction"
  /\ LET id == req[p].loanId IN
     IF id \notin DOMAIN loans
     THEN /\ Finish(p, "deleteLoan", 500)
          /\ UNCHANGED <<loans, entries>>
     ELSE /\ entries' = SoftDeleteEntries(id, now)
          /\ loans' = [loans EXCEPT ![id].deletedAt = now]
          /\ Finish(p, "deleteLoan", 200)
  /\ UNCHANGED <<nextLoanId, nextEntryId, now>>

\* The sum of receivedInterest over a set of entries.
RECURSIVE SumReceivedInterest(_)
SumReceivedInterest(S) ==
  IF S = {} THEN 0
  ELSE LET e == CHOOSE x \in S : TRUE
       IN entries[e].receivedInterest + SumReceivedInterest(S \ {e})

\* GET /api/loans: findMany of the loans that are not soft-deleted, each
\* with the receivedInterest of its entries summed
getLoans_findMany(p) ==
  /\ Free(p)
  /\ pc' = [pc EXCEPT ![p] = "getLoans_respond"]
  /\ req' = [req EXCEPT ![p] =
       [NoReq EXCEPT !.rows =
          [l \in {x \in DOMAIN loans : loans[x].deletedAt = NULL} |->
             [deletedAt |-> loans[l].deletedAt,
              totalInterestAmount |-> SumReceivedInterest(EntriesOf(l))]]]]
  /\ UNCHANGED <<loans, entries, nextLoanId, nextEntryId, now, response>>

\* GET /api/loans, res.json({loans, page, totalPages, totalLoans})
getLoans_respond(p) ==
  /\ pc[p] = "getLoans_respond"
  /\ Finish(p, "getLoans", 200)
  /\ UNCHANGED <<loans, entries, nextLoanId, nextEntryId, now>>

\* GET /api/loans/:id, the lookup of the loan
getLoan_findLoan(p, id) ==
  /\ Free(p)
  /\ IF id \notin DOMAIN loans
     THEN Finish(p, "getLoan", 404)
     ELSE /\ pc' = [pc EXCEPT ![p] = "getLoan_aggregate"]
          /\ req' = [req EXCEPT ![p] =
               [NoReq EXCEPT !.loanId = id,
                             !.rows = (id :> [deletedAt |-> loans[id].deletedAt])]]
          /\ UNCHANGED response
  /\ UNCHANGED <<loans, entries, nextLoanId, nextEntryId, now>>

\* GET /api/loans/:id, prisma.entry.aggregate({where: {loanId}, _sum})
getLoan_aggregate(p) ==
  /\ pc[p] = "getLoan_aggregate"
  /\ req' = [req EXCEPT ![p].totalInterestAmount =
               SumReceivedInterest(EntriesOf(req[p].loanId))]
  /\ pc' = [pc EXCEPT ![p] = "getLoan_respond"]
  /\ UNCHANGED <<loans, entries, nextLoanId, nextEntryId, now, response>>

\* GET /api/loans/:id, res.json({...loan, totalInterestAmount})
getLoan_respond(p) ==
  /\ pc[p] = "getLoan_respond"
  /\ Finish(p, "getLoan", 200)
  /\ UNCHANGED <<loans, entries, nextLoanId, nextEntryId, now>>

\* --------------------------------------------------- entriesController

\* GET /api/entries: findMany of the entries that are not soft-deleted, of
\* one loan when the query names a loanId
getEntries_findMany(p, loanId) ==
  /\ Free(p)
  /\ pc' = [pc EXCEPT ![p] = "getEntries_respond"]
  /\ req' = [req EXCEPT ![p] =
       [NoReq EXCEPT !.rows =
          [e \in {x \in DOMAIN entries :
                    /\ entries[x].deletedAt = NULL
                    /\ loanId # Undefined => entries[x].loanId = loanId} |->
             entries[e]]]]
  /\ UNCHANGED <<loans, entries, nextLoanId, nextEntryId, now, response>>

\* GET /api/entries, res.json({entries, page, totalPages, totalEntries})
getEntries_respond(p) ==
  /\ pc[p] = "getEntries_respond"
  /\ Finish(p, "getEntries", 200)
  /\ UNCHANGED <<loans, entries, nextLoanId, nextEntryId, now>>

\* Transactions of createEntry that hold or will take an entry id.
PendingPostings == {q \in Procs : pc[q] = "createEntry_entryCreate"}

\* POST /api/entries, up to the check of the loan
createEntry_findLoan(p, loanId, data) ==
  /\ Free(p)
  /\ nextEntryId + Cardinality(PendingPostings) <= MaxEntries
  /\ IF loanId \notin DOMAIN loans
     THEN Finish(p, "createEntry", 404)
     ELSE /\ pc' = [pc EXCEPT ![p] = "createEntry_entryCreate"]
          /\ req' = [req EXCEPT ![p] =
               [NoReq EXCEPT !.loanId = loanId, !.entryDate = data.entryDate,
                  !.receivedAmount = data.receivedAmount,
                  !.receivedInterest = data.receivedInterest,
                  !.loan = [balanceAmount |-> loans[loanId].balanceAmount,
                            interest |-> loans[loanId].interest,
                            balanceInterest |-> loans[loanId].balanceInterest]]]
          /\ UNCHANGED response
  /\ UNCHANGED <<loans, entries, nextLoanId, nextEntryId, now>>

\* const calculations = calculateUpdatedLoanBalances(loan, ...)
Calculations(p) ==
  calculateUpdatedLoanBalances(req[p].loan, req[p].receivedAmount, req[p].receivedInterest)

\* The row prisma.entry.create inserts for the posting of slot p.
NewEntry(p) ==
  [loanId |-> req[p].loanId,
   entryDate |-> req[p].entryDate,
   balanceAmount |-> req[p].loan.balanceAmount,
   interestAmount |-> Calculations(p).interestAmount,
   receivedAmount |-> req[p].receivedAmount,
   receivedInterest |-> req[p].receivedInterest,
   deletedAt |-> NULL]

\* The insert of createEntry run outside a transaction: visible at once.
createEntry_entryCreateAutocommit(p) ==
  /\ pc[p] = "createEntry_entryCreate"
  /\ IF req[p].loanId \notin DOMAIN loans
     THEN /\ Finish(p, "createEntry", 400)
          /\ UNCHANGED <<entries, nextEntryId>>
     ELSE /\ pc' = [pc EXCEPT ![p] = "createEntry_loanUpdate"]
          /\ req' = [req EXCEPT ![p].entryId = nextEntryId]
          /\ nextEntryId' = nextEntryId + 1
          /\ entries' = entries @@ (nextEntryId :> NewEntry(p))
          /\ UNCHANGED response
  /\ UNCHANGED <<loans, nextLoanId, now>>

\* POST /api/entries, prisma.entry.create inside the transaction: the row
\* takes its id, and stays invisible until the transaction commits.
createEntry_entryCreate(p) ==
  /\ pc[p] = "createEntry_entryCreate"
  /\ IF req[p].loanId \notin DOMAIN loans
     THEN /\ Finish(p, "createEntry", 400)
          /\ UNCHANGED nextEntryId
     ELSE /\ pc' = [pc EXCEPT ![p] = "createEntry_loanUpdate"]
          /\ req' = [req EXCEPT ![p].entryId = nextEntryId]
          /\ nextEntryId' = nextEntryId + 1
          /\ UNCHANGED response
  /\ UNCHANGED <<loans, entries, nextLoanId, now>>

\* The commit of createEntry on a schema without the foreign key from Entry
\* to Loan: the insert stands although the loan is gone.
createEntry_loanUpdateNoForeignKey(p) ==
  /\ pc[p] = "createEntry_loanUpdate"
  /\ LET id == req[p].loanId IN
     IF id \notin DOMAIN loans
     THEN /\ entries' = entries @@ (req[p].entryId :> NewEntry(p))
          /\ Finish(p, "createEntry", 500)
          /\ UNCHANGED loans
     ELSE /\ entries' = entries @@ (req[p].entryId :> NewEntry(p))
          /\ loans' = [loans EXCEPT
               ![id].balanceAmount = Calculations(p).newBalanceAmount,
               ![id].balanceInterest = Calculations(p).newBalanceInterest,
               ![id].totalInterestAmount = @ + req[p].receivedInterest]
          /\ Finish(p, "createEntry", 201)
  /\ UNCHANGED <<nextLoanId, nextEntryId, now>>

\* The commit of createEntry writing the received interest over the total
\* instead of incrementing it.
createEntry_loanUpdateSetsTotal(p) ==
  /\ pc[p] = "createEntry_loanUpdate"
  /\ LET id == req[p].loanId IN
     IF id \notin DOMAIN loans
     THEN /\ Finish(p, "createEntry", 500)
          /\ UNCHANGED <<loans, entries>>
     ELSE /\ entries' = entries @@ (req[p].entryId :> NewEntry(p))
          /\ loans' = [loans EXCEPT
               ![id].balanceAmount = Calculations(p).newBalanceAmount,
               ![id].balanceInterest = Calculations(p).newBalanceInterest,
               ![id].totalInterestAmount = req[p].receivedInterest]
          /\ Finish(p, "createEntry", 201)
  /\ UNCHANGED <<nextLoanId, nextEntryId, now>>

\* POST /api/entries, prisma.loan.update and the commit of the transaction
createEntry_loanUpdate(p) ==
  /\ pc[p] = "createEntry_loanUpdate"
  /\ LET id == req[p].loanId IN
     IF id \notin DOMAIN loans
     THEN /\ Finish(p, "createEntry", 500)
          /\ UNCHANGED <<loans, entries>>
     ELSE /\ entries' = entries @@ (req[p].entryId :> NewEntry(p))
          /\ loans' = [loans EXCEPT
               ![id].balanceAmount = Calculations(p).newBalanceAmount,
               ![id].balanceInterest = Calculations(p).newBalanceInterest,
               ![id].totalInterestAmount = @ + req[p].receivedInterest]
          /\ Finish(p, "createEntry", 201)
  /\ UNCHANGED <<nextLoanId, nextEntryId, now>>

\* POST /api/entries, a database error inside the transaction: it rolls back
createEntry_rollback(p) ==
  /\ pc[p] \in {"createEntry_entryCreate", "createEntry_loanUpdate"}
  /\ Finish(p, "createEntry", 500)
  /\ UNCHANGED <<loans, entries, nextLoanId, nextEntryId, now>>


\* The lookup of getLoanDetailsForEntry also storing the pending interest
\* it previews.
getLoanDetailsForEntry_findLoanPersisting(p, loanId) ==
  /\ Free(p)
  /\ IF loanId \notin DOMAIN loans
     THEN /\ Finish(p, "getLoanDetailsForEntry", 404)
          /\ UNCHANGED loans
     ELSE LET loan == loans[loanId]
              interestOnBalance == (loan.balanceAmount * loan.interest) \div 100
              newInterestAmount == interestOnBalance
              totalInterestAfterNewPeriod == loan.balanceInterest + newInterestAmount
          IN /\ pc' = [pc EXCEPT ![p] = "getLoanDetailsForEntry_findFirst"]
             /\ req' = [req EXCEPT ![p] =
                  [NoReq EXCEPT !.loanId = loanId,
                     !.loan = [balanceAmount |-> loan.balanceAmount,
                               interest |-> loan.interest,
                               balanceInterest |-> loan.balanceInterest],
                     !.loanDate = loan.loanDate,
                     !.newInterestAmount = newInterestAmount,
                     !.totalInterestAfterNewPeriod = totalInterestAfterNewPeriod]]
             /\ loans' = [loans EXCEPT
                  ![loanId].balanceInterest = totalInterestAfterNewPeriod]
             /\ UNCHANGED response
  /\ UNCHANGED <<entries, nextLoanId, nextEntryId, now>>

\* GET /api/entries/loan/:loanId/details, the lookup of the loan and the
\* interest of the coming period
getLoanDetailsForEntry_findLoan(p, loanId) ==
  /\ Free(p)
  /\ IF loanId \notin DOMAIN loans
     THEN Finish(p, "getLoanDetailsForEntry", 404)
     ELSE LET loan == loans[loanId]
              interestOnBalance == (loan.balanceAmount * loan.interest) \div 100
              newInterestAmount == interestOnBalance
              totalInterestAfterNewPeriod == loan.balanceInterest + newInterestAmount
          IN /\ pc' = [pc EXCEPT ![p] = "getLoanDetailsForEntry_findFirst"]
             /\ req' = [req EXCEPT ![p] =
                  [NoReq EXCEPT !.loanId = loanId,
                     !.loan = [balanceAmount |-> loan.balanceAmount,
                               interest |-> loan.interest,
                               balanceInterest |-> loan.balanceInterest],
                     !.loanDate = loan.loanDate,
                     !.newInterestAmount = newInterestAmount,
                     !.totalInterestAfterNewPeriod = totalInterestAfterNewPeriod]]
             /\ UNCHANGED response
  /\ UNCHANGED <<loans, entries, nextLoanId, nextEntryId, now>>

\* The greatest entryDate in a set of entries.
LatestEntryDate(S) ==
  entries[CHOOSE x \in S : \A y \in S : entries[x].entryDate >= entries[y].entryDate].entryDate

\* prisma.entry.findFirst({where: {loanId}, orderBy: {entryDate: "desc"}})
LatestEntry(loanId) == EntriesOf(loanId)

\* GET /api/entries/loan/:loanId/details, the lookup of the latest entry and
\* the suggested date
getLoanDetailsForEntry_findFirst(p) ==
  /\ pc[p] = "getLoanDetailsForEntry_findFirst"
  /\ LET latestEntry == LatestEntry(req[p].loanId)
         baseDate == IF latestEntry # {} THEN LatestEntryDate(latestEntry)
                     ELSE req[p].loanDate
     IN req' = [req EXCEPT ![p].nextEntryDate = baseDate + ThirtyDays]
  /\ pc' = [pc EXCEPT ![p] = "getLoanDetailsForEntry_respond"]
  /\ UNCHANGED <<loans, entries, nextLoanId, nextEntryId, now, response>>

\* GET /api/entries/loan/:loanId/details, res.json({...loan,
\* calculatedInterestAmount, totalPendingInterest, nextEntryDate})
getLoanDetailsForEntry_respond(p) ==
  /\ pc[p] = "getLoanDetailsForEntry_respond"
  /\ Finish(p, "getLoanDetailsForEntry", 200)
  /\ UNCHANGED <<loans, entries, nextLoanId, nextEntryId, now>>


\* ------------------------------------------------ recycleBinController

\* Soft-deleted entries of loan id: include {entries: {where: {deletedAt: {not: null}}}}
DeletedEntriesOf(id) == {e \in EntriesOf(id) : entries[e].deletedAt # NULL}

\* POST /api/recycle-bin/loans/:id/restore, up to the checks
restoreLoan_findLoan(p, id) ==
  /\ Free(p)
  /\ IF id \notin DOMAIN loans
     THEN Finish(p, "restoreLoan", 404)
     ELSE IF loans[id].deletedAt = NULL
     THEN Finish(p, "restoreLoan", 400)
     ELSE /\ pc' = [pc EXCEPT ![p] = "restoreLoan_transaction"]
          /\ req' = [req EXCEPT ![p] =
               [NoReq EXCEPT !.loanId = id,
                             !.entriesLength = Cardinality(DeletedEntriesOf(id))]]
          /\ UNCHANGED response
  /\ UNCHANGED <<loans, entries, nextLoanId, nextEntryId, now>>

\* The updateMany of restoreLoan also writing the loan's current balance
\* into the entries it restores.
RestoreEntriesRefreshed(id) ==
  [e \in DOMAIN entries |->
     IF entries[e].loanId = id /\ entries[e].deletedAt # NULL
     THEN [entries[e] EXCEPT !.deletedAt = NULL,
                             !.balanceAmount = loans[id].balanceAmount]
     ELSE entries[e]]

\* prisma.entry.updateMany({where: {loanId, deletedAt: {not: null}}, data: {deletedAt: null}})
RestoreEntries(id) ==
  [e \in DOMAIN entries |->
     IF entries[e].loanId = id /\ entries[e].deletedAt # NULL
     THEN [entries[e] EXCEPT !.deletedAt = NULL] ELSE entries[e]]

\* POST /api/recycle-bin/loans/:id/restore, the transaction
restoreLoan_transaction(p) ==
  /\ pc[p] = "restoreLoan_transaction"
  /\ LET id == req[p].loanId IN
     IF id \notin DOMAIN loans
     THEN /\ Finish(p, "restoreLoan", 404)
          /\ UNCHANGED <<loans, entries>>
     ELSE /\ entries' = IF req[p].entriesLength > 0 THEN RestoreEntries(id) ELSE entries
          /\ loans' = [loans EXCEPT ![id].deletedAt = NULL]
          /\ Finish(p, "restoreLoan", 200)
  /\ UNCHANGED <<nextLoanId, nextEntryId, now>>

\* POST /api/recycle-bin/entries/:id/restore, up to the checks
restoreEntry_findEntry(p, id) ==
  /\ Free(p)
  /\ IF id \notin DOMAIN entries
     THEN Finish(p, "restoreEntry", 404)
     ELSE IF entries[id].deletedAt = NULL
     THEN Finish(p, "restoreEntry", 400)
     ELSE /\ pc' = [pc EXCEPT ![p] = "restoreEntry_update"]
          /\ req' = [req EXCEPT ![p] = [NoReq EXCEPT !.entryId = id]]
          /\ UNCHANGED response
  /\ UNCHANGED <<loans, entries, nextLoanId, nextEntryId, now>>

\* POST /api/recycle-bin/entries/:id/restore, the update
restoreEntry_update(p) ==
  /\ pc[p] = "restoreEntry_update"
  /\ LET id == req[p].entryId IN
     IF id \notin DOMAIN entries
     THEN /\ Finish(p, "restoreEntry", 404)
          /\ UNCHANGED entries
     ELSE /\ entries' = [entries EXCEPT ![id].deletedAt = NULL]
          /\ Finish(p, "restoreEntry", 200)
  /\ UNCHANGED <<loans, nextLoanId, nextEntryId, now>>

\* The lookup of permanentlyDeleteLoan without the test of deletedAt.
permanentlyDeleteLoan_findLoanUnchecked(p, id) ==
  /\ Free(p)
  /\ IF id \notin DOMAIN loans
     THEN Finish(p, "permanentlyDeleteLoan", 404)
     ELSE /\ pc' = [pc EXCEPT ![p] = "permanentlyDeleteLoan_transaction"]
          /\ req' = [req EXCEPT ![p] =
               [NoReq EXCEPT !.loanId = id,
                             !.entriesLength = Cardinality(DeletedEntriesOf(id))]]
          /\ UNCHANGED response
  /\ UNCHANGED <<loans, entries, nextLoanId, nextEntryId, now>>

\* DELETE /api/recycle-bin/loans/:id, up to the checks
permanentlyDeleteLoan_findLoan(p, id) ==
  /\ Free(p)
  /\ IF id \notin DOMAIN loans
     THEN Finish(p, "permanentlyDeleteLoan", 404)
     ELSE IF loans[id].deletedAt = NULL
     THEN Finish(p, "permanentlyDeleteLoan", 400)
     ELSE /\ pc' = [pc EXCEPT ![p] = "permanentlyDeleteLoan_transaction"]
          /\ req' = [req EXCEPT ![p] =
               [NoReq EXCEPT !.loanId = id,
                             !.entriesLength = Cardinality(DeletedEntriesOf(id))]]
          /\ UNCHANGED response
  /\ UNCHANGED <<loans, entries, nextLoanId, nextEntryId, now>>

\* The transaction of permanentlyDeleteLoan on a schema without
\* onDelete: Cascade: only the entries its deleteMany names are removed.
permanentlyDeleteLoan_transactionNoCascade(p) ==
  /\ pc[p] = "permanentlyDeleteLoan_transaction"
  /\ LET id == req[p].loanId IN
     IF id \notin DOMAIN loans
     THEN /\ Finish(p, "permanentlyDeleteLoan", 404)
          /\ UNCHANGED <<loans, entries>>
     ELSE /\ entries' = IF req[p].entriesLength > 0
                        THEN Without(entries, DeletedEntriesOf(id)) ELSE entries
          /\ loans' = Without(loans, {id})
          /\ Finish(p, "permanentlyDeleteLoan", 200)
  /\ UNCHANGED <<nextLoanId, nextEntryId, now>>

\* DELETE /api/recycle-bin/loans/:id, the transaction: deleteMany of the
\* soft-deleted entries, then loan.delete, which the schema cascades to
\* every entry of the loan (onDelete: Cascade)
permanentlyDeleteLoan_transaction(p) ==
  /\ pc[p] = "permanentlyDeleteLoan_transaction"
  /\ LET id == req[p].loanId IN
     IF id \notin DOMAIN loans
     THEN /\ Finish(p, "permanentlyDeleteLoan", 404)
          /\ UNCHANGED <<loans, entries>>
     ELSE /\ entries' = Without(entries, EntriesOf(id))
          /\ loans' = Without(loans, {id})
          /\ Finish(p, "permanentlyDeleteLoan", 200)
  /\ UNCHANGED <<nextLoanId, nextEntryId, now>>

\* DELETE /api/recycle-bin/entries/:id, up to the checks
permanentlyDeleteEntry_findEntry(p, id) ==
  /\ Free(p)
  /\ IF id \notin DOMAIN entries
     THEN Finish(p, "permanentlyDeleteEntry", 404)
     ELSE IF entries[id].deletedAt = NULL
     THEN Finish(p, "permanentlyDeleteEntry", 400)
     ELSE /\ pc' = [pc EXCEPT ![p] = "permanentlyDeleteEntry_delete"]
          /\ req' = [req EXCEPT ![p] = [NoReq EXCEPT !.entryId = id]]
          /\ UNCHANGED response
  /\ UNCHANGED <<loans, entries, nextLoanId, nextEntryId, now>>

\* DELETE /api/recycle-bin/entries/:id, the delete
permanentlyDeleteEntry_delete(p) ==
  /\ pc[p] = "permanentlyDeleteEntry_delete"
  /\ LET id == req[p].entryId IN
     IF id \notin DOMAIN entries
     THEN /\ Finish(p, "permanentlyDeleteEntry", 404)
          /\ UNCHANGED entries
     ELSE /\ entries' = Without(entries, {id})
          /\ Finish(p, "permanentlyDeleteEntry", 200)
  /\ UNCHANGED <<loans, nextLoanId, nextEntryId, now>>

\* The values of ?type= that select a branch.
BinTypes == {"loans", "entries", "all"}

\* emptyRecycleBin whose entries branch does not look at the parent loan.
emptyRecycleBinAnyLoan(type) ==
  /\ IF type \in {"loans", "all"}
     THEN LET goneLoans == {l \in DOMAIN loans : loans[l].deletedAt # NULL}
              goneEntries == {e \in DOMAIN entries :
                                \/ entries[e].deletedAt # NULL
                                \/ entries[e].loanId \in goneLoans}
          IN /\ entries' = Without(entries, goneEntries)
             /\ loans' = Without(loans, goneLoans)
     ELSE LET goneEntries == {e \in DOMAIN entries : entries[e].deletedAt # NULL}
          IN /\ entries' = Without(entries, goneEntries)
             /\ UNCHANGED loans
  /\ response' = Respond("emptyRecycleBin", 200)
  /\ UNCHANGED <<nextLoanId, nextEntryId, now, pc, req>>

\* DELETE /api/recycle-bin/empty: one transaction
emptyRecycleBin(type) ==
  /\ IF type \in {"loans", "all"}
     THEN LET goneLoans == {l \in DOMAIN loans : loans[l].deletedAt # NULL}
              goneEntries == {e \in DOMAIN entries :
                                \/ entries[e].deletedAt # NULL
                                \/ entries[e].loanId \in goneLoans}
          IN /\ entries' = Without(entries, goneEntries)
             /\ loans' = Without(loans, goneLoans)
     ELSE LET goneEntries == {e \in DOMAIN entries :
                                /\ entries[e].deletedAt # NULL
                                /\ loans[entries[e].loanId].deletedAt = NULL}
          IN /\ entries' = Without(entries, goneEntries)
             /\ UNCHANGED loans
  /\ response' = Respond("emptyRecycleBin", 200)
  /\ UNCHANGED <<nextLoanId, nextEntryId, now, pc, req>>

\* ---------------------------------------------------------------- Next

Next ==
  \/ Tick
  \/ \E body \in CreateBodies : createLoan(body)
  \/ \E p \in Procs, id \in LoanIds, body \in UpdateBodies : updateLoan_findLoan(p, id, body)
  \/ \E p \in Procs : updateLoan_update(p)
  \/ \E p \in Procs, id \in LoanIds : deleteLoan_findLoan(p, id)
  \/ \E p \in Procs : deleteLoan_transaction(p)
  \/ \E p \in Procs, id \in LoanIds, data \in EntryBodies :
          createEntry_findLoan(p, id, data)
  \/ \E p \in Procs : createEntry_entryCreate(p)
  \/ \E p \in Procs : createEntry_loanUpdate(p)
  \/ \E p \in Procs : createEntry_rollback(p)
  \/ \E p \in Procs, id \in LoanIds : restoreLoan_findLoan(p, id)
  \/ \E p \in Procs : restoreLoan_transaction(p)
  \/ \E p \in Procs, id \in EntryIds : restoreEntry_findEntry(p, id)
  \/ \E p \in Procs : restoreEntry_update(p)
  \/ \E p \in Procs, id \in LoanIds : permanentlyDeleteLoan_findLoan(p, id)
  \/ \E p \in Procs : permanentlyDeleteLoan_transaction(p)
  \/ \E p \in Procs, id \in EntryIds : permanentlyDeleteEntry_findEntry(p, id)
  \/ \E p \in Procs : permanentlyDeleteEntry_delete(p)
  \/ \E type \in BinTypes : emptyRecycleBin(type)

Spec == Init /\ [][Next]_vars


\* ------------------------------------------- postings on one live loan

\* A loan as createLoan leaves it when the request gives no balanceAmount
\* and no pending interest.
RaceLoan ==
  NewLoan([loanDate |-> 0, loanAmount |-> 100, balanceAmount |-> Undefined,
           interest |-> 10, balanceInterest |-> 0])

InitRace ==
  /\ loans = (1 :> RaceLoan)
  /\ entries = <<>>
  /\ nextLoanId = 2
  /\ nextEntryId = 1
  /\ now = 1
  /\ pc = [p \in Procs |-> "idle"]
  /\ req = [p \in Procs |-> NoReq]
  /\ response = 201

\* Only POST /api/entries requests arrive.
NextRace ==
  \/ \E p \in Procs, id \in LoanIds, data \in EntryBodies :
          createEntry_findLoan(p, id, data)
  \/ \E p \in Procs : createEntry_entryCreate(p)
  \/ \E p \in Procs : createEntry_loanUpdate(p)
  \/ \E p \in Procs : createEntry_rollback(p)

SpecRace == InitRace /\ [][NextRace]_vars

\* ----------------------------------------- one posting, inputs at large

\* Loan rows a posting can find: createLoan and updateLoan accept any
\* non-negative balanceAmount, interest and balanceInterest.
CalcLoans ==
  {[RaceLoan EXCEPT !.loanAmount = 1000, !.balanceAmount = b, !.interest = r,
                    !.balanceInterest = i, !.totalInterestAmount = i] :
     b \in {0, 100, 1000}, r \in {0, 5, 10}, i \in {0, 50, 100}}

\* Payments of a posting: none, part, and more than is due.
CalcBodies ==
  [entryDate : {1}, receivedAmount : {0, 150, 200}, receivedInterest : {0, 30, 100}]

InitCalc ==
  /\ loans \in {(1 :> row) : row \in CalcLoans}
  /\ entries = <<>>
  /\ nextLoanId = 2
  /\ nextEntryId = 1
  /\ now = 1
  /\ pc = [p \in Procs |-> "idle"]
  /\ req = [p \in Procs |-> NoReq]
  /\ response = 201

\* One POST /api/entries request is served.
NextCalc ==
  \/ \E p \in Procs, data \in CalcBodies :
       nextEntryId = 1 /\ AllIdle /\ createEntry_findLoan(p, 1, data)
  \/ \E p \in Procs : createEntry_entryCreate(p)
  \/ \E p \in Procs : createEntry_loanUpdate(p)
  \/ \E p \in Procs : createEntry_rollback(p)

SpecCalc == InitCalc /\ [][NextCalc]_vars

\* ------------------------------- deleting and restoring a posted-on loan

\* Tables the requests of Spec leave behind: a loan with no entry, with one
\* posting, with two postings one after the other, and a live loan whose
\* entry, an overpayment, kept the deletedAt of a cascade (restoreLoan ran
\* with the entry list it read before the cascade).  No two of them agree
\* on the loan's balances.
TripStates ==
  LET e1 == [loanId |-> 1, entryDate |-> 2, balanceAmount |-> 100,
             interestAmount |-> 10, receivedAmount |-> 10, receivedInterest |-> 0,
             deletedAt |-> NULL]
      e2 == [e1 EXCEPT !.balanceAmount = 90, !.interestAmount = 9]
  IN {[loans |-> (1 :> RaceLoan), entries |-> <<>>],
      [loans |-> (1 :> [RaceLoan EXCEPT !.balanceAmount = 90, !.balanceInterest = 10]),
       entries |-> (1 :> e1)],
      [loans |-> (1 :> [RaceLoan EXCEPT !.balanceAmount = 80, !.balanceInterest = 19]),
       entries |-> (1 :> e1) @@ (2 :> e2)],
      [loans |-> (1 :> [RaceLoan EXCEPT !.balanceAmount = 0, !.totalInterestAmount = 30]),
       entries |-> (1 :> [e1 EXCEPT !.entryDate = 1, !.receivedAmount = 150,
                                    !.receivedInterest = 30, !.deletedAt = 1])]}

InitTrip ==
  /\ \E s \in TripStates : loans = s.loans /\ entries = s.entries
  /\ nextLoanId = 2
  /\ nextEntryId = MaxEntries + 1
  /\ now = 1
  /\ pc = [p \in Procs |-> "idle"]
  /\ req = [p \in Procs |-> NoReq]
  /\ response = 200

\* Only DELETE /api/loans/:id and POST /api/recycle-bin/loans/:id/restore
\* requests arrive.
NextTrip ==
  \/ Tick
  \/ \E p \in Procs, id \in LoanIds : deleteLoan_findLoan(p, id)
  \/ \E p \in Procs : deleteLoan_transaction(p)
  \/ \E p \in Procs, id \in LoanIds : restoreLoan_findLoan(p, id)
  \/ \E p \in Procs : restoreLoan_transaction(p)

SpecTrip == InitTrip /\ [][NextTrip]_vars


\* ------------------------------------- the recycle bin over two loans

\* Ids of the rows in the tables below.
BinLoanIds == 1..(MaxLoans + 1)
BinEntryIds == 1..(MaxEntries + 1)

\* Tables the requests of Spec leave behind over two loans.  Loan 1 is live
\* and loan 2 lies in the bin with the entry its cascade stamped.  Loan 1 has
\* either a live entry and an entry that kept the deletedAt of an earlier
\* cascade, or one live entry while loan 2 also has an entry posted after
\* its delete.
BinStates ==
  LET e1 == [loanId |-> 1, entryDate |-> 2, balanceAmount |-> 100,
             interestAmount |-> 10, receivedAmount |-> 10, receivedInterest |-> 0,
             deletedAt |-> NULL]
      e2 == [e1 EXCEPT !.balanceAmount = 90, !.interestAmount = 9]
      once == [RaceLoan EXCEPT !.balanceAmount = 90, !.balanceInterest = 10]
      twice == [RaceLoan EXCEPT !.balanceAmount = 80, !.balanceInterest = 19]
  IN {[loans |-> (1 :> twice) @@ (2 :> [once EXCEPT !.deletedAt = 1]),
       entries |-> (1 :> [e1 EXCEPT !.deletedAt = 1]) @@ (2 :> e2)
                     @@ (3 :> [e1 EXCEPT !.loanId = 2, !.deletedAt = 1])],
      [loans |-> (1 :> once) @@ (2 :> [twice EXCEPT !.deletedAt = 1]),
       entries |-> (1 :> e1) @@ (2 :> [e1 EXCEPT !.loanId = 2, !.deletedAt = 1])
                     @@ (3 :> [e2 EXCEPT !.loanId = 2])]}

InitBin ==
  /\ \E s \in BinStates : loans = s.loans /\ entries = s.entries
  /\ nextLoanId = MaxLoans + 2
  /\ nextEntryId = MaxEntries + 2
  /\ now = 1
  /\ pc = [p \in Procs |-> "idle"]
  /\ req = [p \in Procs |-> NoReq]
  /\ response = 200

\* Only requests of the recycle bin and DELETE /api/loans/:id arrive.
NextBin ==
  \/ Tick
  \/ \E p \in Procs, id \in BinLoanIds : deleteLoan_findLoan(p, id)
  \/ \E p \in Procs : deleteLoan_transaction(p)
  \/ \E p \in Procs, id \in BinLoanIds : restoreLoan_findLoan(p, id)
  \/ \E p \in Procs : restoreLoan_transaction(p)
  \/ \E p \in Procs, id \in BinEntryIds : restoreEntry_findEntry(p, id)
  \/ \E p \in Procs : restoreEntry_update(p)
  \/ \E p \in Procs, id \in BinLoanIds : permanentlyDeleteLoan_findLoan(p, id)
  \/ \E p \in Procs : permanentlyDeleteLoan_transaction(p)
  \/ \E p \in Procs, id \in BinEntryIds : permanentlyDeleteEntry_findEntry(p, id)
  \/ \E p \in Procs : permanentlyDeleteEntry_delete(p)
  \/ \E type \in BinTypes : emptyRecycleBin(type)

SpecBin == InitBin /\ [][NextBin]_vars

\* --------------------------------------------- the views of the ledger

\* The tables of TripStates before any delete: every entry is live.  The
\* loan has no entry, one part payment, two part payments, or one
\* overpayment with 30 of interest received.
ViewStates ==
  {[loans |-> s.loans,
    entries |-> [e \in DOMAIN s.entries |-> [s.entries[e] EXCEPT !.deletedAt = NULL]]] :
     s \in TripStates}

InitView ==
  /\ \E s \in ViewStates : loans = s.loans /\ entries = s.entries
  /\ nextLoanId = 2
  /\ nextEntryId = MaxEntries + 1
  /\ now = 1
  /\ pc = [p \in Procs |-> "idle"]
  /\ req = [p \in Procs |-> NoReq]
  /\ response = 201

\* GET requests arrive, between DELETE /api/loans/:id and the restores of
\* the recycle bin.
NextView ==
  \/ Tick
  \/ \E p \in Procs, id \in LoanIds : deleteLoan_findLoan(p, id)
  \/ \E p \in Procs : deleteLoan_transaction(p)
  \/ \E p \in Procs, id \in LoanIds : restoreLoan_findLoan(p, id)
  \/ \E p \in Procs : restoreLoan_transaction(p)
  \/ \E p \in Procs, id \in EntryIds : restoreEntry_findEntry(p, id)
  \/ \E p \in Procs : restoreEntry_update(p)
  \/ \E p \in Procs : getLoans_findMany(p)
  \/ \E p \in Procs : getLoans_respond(p)
  \/ \E p \in Procs, id \in LoanIds : getLoan_findLoan(p, id)
  \/ \E p \in Procs : getLoan_aggregate(p)
  \/ \E p \in Procs : getLoan_respond(p)
  \/ \E p \in Procs, id \in LoanIds \cup {Undefined} : getEntries_findMany(p, id)
  \/ \E p \in Procs : getEntries_respond(p)
  \/ \E p \in Procs, id \in LoanIds : getLoanDetailsForEntry_findLoan(p, id)
  \/ \E p \in Procs : getLoanDetailsForEntry_findFirst(p)
  \/ \E p \in Procs : getLoanDetailsForEntry_respond(p)

SpecView == InitView /\ [][NextView]_vars

\* --------------------------------------------------------------- claims

\* One posting applied to a pair of balances at the loan's rate.
Post(bal, rate, e) ==
  LET c == calculateUpdatedLoanBalances(
             [balanceAmount |-> bal[1], interest |-> rate, balanceInterest |-> bal[2]],
             e.receivedAmount, e.receivedInterest)
  IN <<c.newBalanceAmount, c.newBalanceInterest>>

\* C1: two postings on the same live loan never lose an update: once both
\* have committed, the loan's balanceAmount and balanceInterest are those of
\* applying the two postings one after the other, in one of the two orders.
C1_NoLostUpdate ==
  (AllIdle /\ Cardinality(DOMAIN entries) = 2) =>
    \E a \in DOMAIN entries, b \in DOMAIN entries :
      /\ a # b
      /\ <<loans[1].balanceAmount, loans[1].balanceInterest>> =
           Post(Post(<<RaceLoan.balanceAmount, RaceLoan.balanceInterest>>,
                     RaceLoan.interest, entries[a]),
                RaceLoan.interest, entries[b])


\* Live entries of loan id.
LiveEntriesOf(id) == {e \in EntriesOf(id) : entries[e].deletedAt = NULL}

\* The balances left by the postings of the entries in S, taken in
\* entryDate order (the older row first among equal dates).
RECURSIVE FoldEntries(_, _, _)
FoldEntries(bal, rate, S) ==
  IF S = {} THEN bal
  ELSE LET e == CHOOSE x \in S : \A y \in S :
                  \/ entries[x].entryDate < entries[y].entryDate
                  \/ entries[x].entryDate = entries[y].entryDate /\ x <= y
       IN FoldEntries(Post(bal, rate, entries[e]), rate, S \ {e})

\* C2: every loan that is not soft-deleted has (balanceAmount,
\* balanceInterest) equal to the fold of the calculator over its live
\* entries in entryDate order, starting from (principal, 0).
C2_FoldConsistency ==
  \A l \in DOMAIN loans :
    loans[l].deletedAt = NULL =>
      <<loans[l].balanceAmount, loans[l].balanceInterest>> =
        FoldEntries(<<loans[l].loanAmount, 0>>, loans[l].interest, LiveEntriesOf(l))

\* C3: the balances of a loan are never negative, whatever non-negative
\* payments have been posted against it.
C3_NonNegative ==
  \A l \in DOMAIN loans :
    loans[l].balanceAmount >= 0 /\ loans[l].balanceInterest >= 0

\* C3 witness: an overpayment of principal and interest has been posted and
\* both balances stand at the floor.
C3_Witness ==
  \E e \in DOMAIN entries :
    /\ entries[e].receivedAmount > entries[e].balanceAmount
    /\ entries[e].receivedInterest > entries[e].interestAmount
    /\ entries[e].loanId \in DOMAIN loans
    /\ loans[entries[e].loanId].balanceAmount = 0
    /\ loans[entries[e].loanId].balanceInterest = 0


\* C4: a posting is all or nothing.  The row inserted inside the transaction
\* is in the table only from the step that also writes the loan's new
\* balances; a transaction that fails after the insert leaves both tables
\* as they were.
C4_AllOrNothing ==
  /\ [](\A p \in Procs :
          pc[p] = "createEntry_loanUpdate" => req[p].entryId \notin DOMAIN entries)
  /\ [][/\ (\A e \in (DOMAIN entries') \ (DOMAIN entries) :
              \E p \in Procs :
                /\ pc[p] = "createEntry_loanUpdate" /\ req[p].entryId = e
                /\ pc'[p] = "idle" /\ response' = 201
                /\ entries'[e].loanId \in DOMAIN loans'
                /\ loans'[entries'[e].loanId].balanceAmount =
                     Max(0, entries'[e].balanceAmount - entries'[e].receivedAmount)
                /\ loans'[entries'[e].loanId].totalInterestAmount =
                     loans[entries'[e].loanId].totalInterestAmount
                       + entries'[e].receivedInterest)
          /\ (\A q \in Procs :
                (/\ pc[q] \in {"createEntry_entryCreate", "createEntry_loanUpdate"}
                 /\ pc'[q] = "idle" /\ response' # 201)
                => UNCHANGED <<loans, entries>>)
          /\ (\A r \in Procs :
                (pc[r] = "createEntry_entryCreate" /\ pc'[r] = "createEntry_loanUpdate")
                => UNCHANGED <<loans, entries>>)]_vars

\* C4 witness: a transaction took an entry id and then failed; no entry is
\* in the table and the loan stands as createLoan left it.
C4_Witness ==
  /\ AllIdle /\ response = 500
  /\ nextEntryId > 1 /\ DOMAIN entries = {}
  /\ 1 \in DOMAIN loans /\ loans[1] = RaceLoan

\* C5: a posting against a loan id that is absent or soft-deleted ends at
\* the lookup with 404, and leaves the loans and the entries as they were.
C5_PostingNeedsLiveLoan ==
  [][\A p \in Procs, id \in LoanIds, data \in EntryBodies :
       (/\ createEntry_findLoan(p, id, data)
        /\ (id \notin DOMAIN loans \/ loans[id].deletedAt # NULL))
       => (response' = 404 /\ pc'[p] = "idle" /\ UNCHANGED <<loans, entries>>)]_vars


\* The posting of slot p commits in this step.
Commits(p) ==
  pc[p] = "createEntry_loanUpdate" /\ pc'[p] = "idle" /\ response' = 201

\* C6: for non-negative inputs the calculator used by a posting returns
\* interest accrued = balanceAmount * rate / 100, new balanceInterest =
\* max(0, balanceInterest + accrued - receivedInterest), with the pending
\* interest added once, and new balanceAmount = max(0, balanceAmount -
\* receivedAmount); (1000, 50, rate 5, receivedInterest 30) gives accrued 50,
\* due 100 and new interest 70, and balance 100 less 150 gives 0.
C6_CalculatorFormula ==
  /\ [](LET c == calculateUpdatedLoanBalances(
                   [balanceAmount |-> 1000, interest |-> 5, balanceInterest |-> 50], 0, 30)
            d == calculateUpdatedLoanBalances(
                   [balanceAmount |-> 100, interest |-> 5, balanceInterest |-> 0], 150, 0)
            b == calculateUpdatedLoanBalances(
                   [balanceAmount |-> 1000, interest |-> 10, balanceInterest |-> 100], 200, 100)
        IN /\ c.interestAmount = 50 /\ c.totalInterestBeforePayment = 100
           /\ c.newBalanceInterest = 70 /\ c.newBalanceAmount = 1000
           /\ d.newBalanceAmount = 0
           /\ b.interestAmount = 100 /\ b.totalInterestBeforePayment = 200
           /\ b.newBalanceInterest = 100 /\ b.newBalanceAmount = 800)
  /\ [][\A p \in Procs :
          Commits(p) =>
            LET was == req[p].loan
                row == loans'[req[p].loanId]
                e == entries'[req[p].entryId]
                due == was.balanceInterest + e.interestAmount - e.receivedInterest
            IN /\ e.interestAmount * 100 = was.balanceAmount * was.interest
               /\ row.balanceInterest = (IF due > 0 THEN due ELSE 0)
               /\ row.balanceAmount =
                    (IF was.balanceAmount > e.receivedAmount
                     THEN was.balanceAmount - e.receivedAmount ELSE 0)]_vars

\* C6 witness: the posting of the spec's example has committed: balance 1000
\* at 5 per cent with 50 pending, 30 received, leaves 70 pending.
C6_Witness ==
  /\ 1 \in DOMAIN entries
  /\ entries[1].balanceAmount = 1000 /\ entries[1].interestAmount = 50
  /\ entries[1].receivedInterest = 30 /\ entries[1].receivedAmount = 0
  /\ loans[1].interest = 5 /\ loans[1].balanceInterest = 70
  /\ loans[1].balanceAmount = 1000

\* C7: the entry a posting creates stores the loan's balanceAmount as it is
\* just before that posting's loan update, and interestAmount = that
\* balance * rate / 100, also when postings on the loan run concurrently.
C7_EntrySnapshot ==
  [][\A p \in Procs :
       Commits(p) =>
         LET was == loans[req[p].loanId]
             e == entries'[req[p].entryId]
         IN /\ e.balanceAmount = was.balanceAmount
            /\ e.interestAmount * 100 = was.balanceAmount * was.interest]_vars

\* C8: a loan's totalInterestAmount never decreases: a posting adds its
\* receivedInterest to it and no operation lowers it.
C8_TotalInterestMonotone ==
  [][/\ (\A l \in (DOMAIN loans) \cap (DOMAIN loans') :
           loans'[l].totalInterestAmount >= loans[l].totalInterestAmount)
     /\ (\A p \in Procs :
           Commits(p) =>
             loans'[req[p].loanId].totalInterestAmount =
               loans[req[p].loanId].totalInterestAmount + req[p].receivedInterest)]_vars

\* C9: the transaction of deleteLoan sets, in one step, deletedAt on the
\* loan and on every entry of the loan that was live, all to one timestamp.
C9_CascadeOneTimestamp ==
  [][\A p \in Procs :
       (/\ pc[p] = "deleteLoan_transaction" /\ pc'[p] = "idle"
        /\ response' = 200)
       => LET id == req[p].loanId IN
          /\ loans'[id].deletedAt # NULL
          /\ \A e \in EntriesOf(id) :
               /\ e \in DOMAIN entries'
               /\ entries[e].deletedAt = NULL =>
                    entries'[e].deletedAt = loans'[id].deletedAt
               /\ entries[e].deletedAt # NULL =>
                    entries'[e].deletedAt = entries[e].deletedAt]_vars

\* C9 witness: a loan deleted at the second clock reading whose two entries
\* carry that same timestamp.
C9_Witness ==
  \E l \in DOMAIN loans :
    /\ loans[l].deletedAt = 2
    /\ Cardinality(EntriesOf(l)) = 2
    /\ \A e \in EntriesOf(l) : entries[e].deletedAt = loans[l].deletedAt
    /\ response = 200

\* C10: no state shows a soft-deleted loan with a live entry.
C10_NoLiveEntryOfDeletedLoan ==
  \A l \in DOMAIN loans :
    loans[l].deletedAt # NULL =>
      \A e \in EntriesOf(l) : entries[e].deletedAt # NULL

\* C11: no state shows a live loan with a soft-deleted entry: once the
\* transaction of restoreLoan has committed, no entry of the loan has
\* deletedAt set, however deleteLoan and restoreLoan requests interleave.
C11_NoDeletedEntryOfLiveLoan ==
  \A l \in DOMAIN loans :
    loans[l].deletedAt = NULL =>
      \A e \in EntriesOf(l) : entries[e].deletedAt = NULL

\* C12: deleteLoan followed by restoreLoan is a round trip: whenever the loan
\* is live again, the loan row and every entry row, deletedAt and financial
\* fields alike, are as they were before the delete, so exactly the entries
\* that were live are live.  (Neither request changes a balance, and the
\* starting tables differ in the balances, so the tables can only equal the
\* ones the run started from.)
C12_DeleteRestoreRoundTrip ==
  loans[1].deletedAt = NULL =>
    \E s \in TripStates : loans = s.loans /\ entries = s.entries

\* C13: deleteLoan on a loan that is already soft-deleted ends at its check
\* with 400 (already deleted) and changes no row: the deletedAt of the loan
\* and of its entries stay as they were.
C13_DeleteDeletedLoanFails ==
  [][\A p \in Procs, id \in LoanIds :
       (/\ deleteLoan_findLoan(p, id)
        /\ id \in DOMAIN loans /\ loans[id].deletedAt # NULL)
       => (response' = 400 /\ pc'[p] = "idle" /\ UNCHANGED <<loans, entries>>)]_vars

\* C13 witness: a request was refused with 400 while the loan and its two
\* entries lie in the bin with the timestamp of the delete.
C13_Witness ==
  /\ AllIdle /\ response = 400
  /\ 1 \in DOMAIN loans /\ loans[1].deletedAt # NULL
  /\ Cardinality(EntriesOf(1)) = 2
  /\ \A e \in EntriesOf(1) : entries[e].deletedAt = loans[1].deletedAt

\* C14: restoreEntry on a soft-deleted entry whose loan is soft-deleted is
\* refused at its check, and no step clears the deletedAt of an entry while
\* its loan stays soft-deleted.
C14_RestoreEntryNeedsLiveLoan ==
  [][/\ (\A p \in Procs, id \in EntryIds :
           (/\ restoreEntry_findEntry(p, id)
            /\ id \in DOMAIN entries /\ entries[id].deletedAt # NULL
            /\ entries[id].loanId \in DOMAIN loans
            /\ loans[entries[id].loanId].deletedAt # NULL)
           => (response' >= 400 /\ pc'[p] = "idle" /\ UNCHANGED <<loans, entries>>))
     /\ (\A e \in (DOMAIN entries) \cap (DOMAIN entries') :
           (/\ entries[e].deletedAt # NULL /\ entries'[e].deletedAt = NULL
            /\ entries[e].loanId \in DOMAIN loans')
           => loans'[entries[e].loanId].deletedAt = NULL)]_vars

\* C15: when the transaction of permanentlyDeleteLoan commits, the loan row
\* and every entry row of the loan, soft-deleted or live, are gone from the
\* tables; no entry ever refers to an absent loan, and rows enter the tables
\* only under ids never used before, so nothing removed comes back.
C15_PermanentDeleteRemovesAll ==
  /\ [](/\ \A e \in DOMAIN entries : entries[e].loanId \in DOMAIN loans
        /\ \A l \in DOMAIN loans : l < nextLoanId
        /\ \A e \in DOMAIN entries : e < nextEntryId)
  /\ [][/\ (\A p \in Procs :
              (/\ pc[p] = "permanentlyDeleteLoan_transaction" /\ pc'[p] = "idle"
               /\ response' = 200)
              => (/\ req[p].loanId \notin DOMAIN loans'
                  /\ \A e \in DOMAIN entries' : entries'[e].loanId # req[p].loanId))
        /\ (\A l \in (DOMAIN loans') \ (DOMAIN loans) :
              l = nextLoanId /\ nextLoanId' = l + 1)
        /\ (\A e \in (DOMAIN entries') \ (DOMAIN entries) :
              \E q \in Procs :
                /\ pc[q] = "createEntry_loanUpdate" /\ req[q].entryId = e
                /\ \A r \in Procs \ {q} :
                     pc[r] = "createEntry_loanUpdate" => req[r].entryId # e)]_vars

\* C15 witness: the loan and what was posted on it (two entry ids were given
\* out) are gone from both tables after a request that answered 200, while
\* a second request still holds the loan id it looked up in the bin.
C15_Witness ==
  /\ loans = <<>> /\ entries = <<>>
  /\ nextLoanId = 2 /\ nextEntryId = 3
  /\ response = 200
  /\ \E p \in Procs : pc[p] = "permanentlyDeleteLoan_transaction" /\ req[p].loanId = 1

\* C16: permanentlyDeleteLoan on a live loan ends at its check with 400 (not
\* in the recycle bin) and removes nothing: the loan and all of its entries
\* are in the tables unchanged.
C16_PermanentDeleteLiveLoanFails ==
  [][\A p \in Procs, id \in LoanIds :
       (/\ permanentlyDeleteLoan_findLoan(p, id)
        /\ id \in DOMAIN loans /\ loans[id].deletedAt = NULL)
       => (response' = 400 /\ pc'[p] = "idle" /\ UNCHANGED <<loans, entries>>)]_vars

\* C16 witness: a request was refused with 400 while the loan is live and its
\* two entries are live in the table.
C16_Witness ==
  /\ AllIdle /\ response = 400
  /\ 1 \in DOMAIN loans /\ loans[1].deletedAt = NULL
  /\ Cardinality(LiveEntriesOf(1)) = 2

\* C17: emptyRecycleBin with type = entries removes exactly the soft-deleted
\* entries whose loan is live; soft-deleted entries of soft-deleted loans,
\* all live entries and all loans stay in the tables unchanged.
C17_EmptyBinEntriesScope ==
  [][emptyRecycleBin("entries") =>
       /\ loans' = loans
       /\ DOMAIN entries' \subseteq DOMAIN entries
       /\ \A e \in DOMAIN entries :
            IF /\ entries[e].deletedAt # NULL
               /\ loans[entries[e].loanId].deletedAt = NULL
            THEN e \notin DOMAIN entries'
            ELSE e \in DOMAIN entries' /\ entries'[e] = entries[e]]_vars

\* C17 witness: the soft-deleted entry of the live loan is gone, while the
\* live entry of that loan, the soft-deleted loan and its soft-deleted entry
\* are as they were.
C17_Witness ==
  /\ AllIdle /\ response = 200 /\ now = 1
  /\ DOMAIN loans = {1, 2} /\ DOMAIN entries = {2, 3}
  /\ loans[1].deletedAt = NULL /\ loans[2].deletedAt = 1
  /\ entries[2].loanId = 1 /\ entries[2].deletedAt = NULL
  /\ entries[3].loanId = 2 /\ entries[3].deletedAt = 1

\* C18: emptyRecycleBin with type = loans removes every soft-deleted loan
\* and all entries of those loans, and leaves every live loan and every
\* entry of a live loan, live or soft-deleted, in the tables unchanged.
C18_EmptyBinLoansScope ==
  [][emptyRecycleBin("loans") =>
       /\ DOMAIN loans' \subseteq DOMAIN loans
       /\ DOMAIN entries' \subseteq DOMAIN entries
       /\ \A l \in DOMAIN loans :
            IF loans[l].deletedAt # NULL
            THEN l \notin DOMAIN loans'
            ELSE l \in DOMAIN loans' /\ loans'[l] = loans[l]
       /\ \A e \in DOMAIN entries :
            IF loans[entries[e].loanId].deletedAt # NULL
            THEN e \notin DOMAIN entries'
            ELSE e \in DOMAIN entries' /\ entries'[e] = entries[e]]_vars

\* C19: the writes of deleteLoan, restoreLoan and restoreEntry leave the
\* balanceAmount, balanceInterest and totalInterestAmount of every loan as
\* they were; none of them recalculates a balance.
C19_BinLeavesBalances ==
  [][\A p \in Procs :
       (/\ pc[p] \in {"deleteLoan_transaction", "restoreLoan_transaction",
                      "restoreEntry_update"}
        /\ pc'[p] = "idle")
       => /\ DOMAIN loans' = DOMAIN loans
          /\ \A l \in DOMAIN loans :
               /\ loans'[l].balanceAmount = loans[l].balanceAmount
               /\ loans'[l].balanceInterest = loans[l].balanceInterest
               /\ loans'[l].totalInterestAmount = loans[l].totalInterestAmount]_vars

\* C19 witness: a loan lies in the bin with the entry its cascade stamped,
\* and still has the balances the posting of that entry left: 90 of 100 and
\* 10 of interest pending.
C19_Witness ==
  /\ AllIdle /\ response = 200
  /\ 1 \in DOMAIN loans /\ loans[1].deletedAt # NULL
  /\ loans[1].loanAmount = 100
  /\ loans[1].balanceAmount = 90 /\ loans[1].balanceInterest = 10
  /\ 1 \in DOMAIN entries /\ entries[1].deletedAt = loans[1].deletedAt
  /\ entries[1].balanceAmount = 100 /\ entries[1].receivedAmount = 10

\* C20: entries are immutable: no step changes the interestAmount,
\* balanceAmount, receivedAmount or receivedInterest (nor the loanId or the
\* entryDate) of an entry that is in the table before and after it; a step
\* sets or clears deletedAt, or removes the row.
C20_EntriesImmutable ==
  [][\A e \in (DOMAIN entries) \cap (DOMAIN entries') :
       /\ entries'[e].interestAmount = entries[e].interestAmount
       /\ entries'[e].balanceAmount = entries[e].balanceAmount
       /\ entries'[e].receivedAmount = entries[e].receivedAmount
       /\ entries'[e].receivedInterest = entries[e].receivedInterest
       /\ entries'[e].loanId = entries[e].loanId
       /\ entries'[e].entryDate = entries[e].entryDate]_vars

\* C20 witness: two entries posted one after the other lie in the bin,
\* stamped by the cascade of their loan, with the fields their postings
\* stored and the loan moved on to 80 and 19.
C20_Witness ==
  /\ AllIdle /\ response = 200
  /\ DOMAIN entries = {1, 2}
  /\ entries[1].balanceAmount = 100 /\ entries[1].interestAmount = 10
  /\ entries[1].receivedAmount = 10 /\ entries[1].receivedInterest = 0
  /\ entries[2].balanceAmount = 90 /\ entries[2].interestAmount = 9
  /\ entries[2].receivedAmount = 10 /\ entries[2].receivedInterest = 0
  /\ loans[1].balanceAmount = 80 /\ loans[1].balanceInterest = 19
  /\ loans[1].deletedAt # NULL
  /\ \A e \in DOMAIN entries : entries[e].deletedAt = loans[1].deletedAt

\* C21: only a posting changes the balanceAmount or the balanceInterest of
\* a loan that is in the table: every step that changes one of them is the
\* commit of a createEntry on that loan; updateLoan and every other handler
\* leave both as they were.
C21_OnlyPostingMovesBalances ==
  [][\A l \in (DOMAIN loans) \cap (DOMAIN loans') :
       (\/ loans'[l].balanceAmount # loans[l].balanceAmount
        \/ loans'[l].balanceInterest # loans[l].balanceInterest)
       => \E p \in Procs : Commits(p) /\ req[p].loanId = l]_vars

\* The positions of a getLoanDetailsForEntry handler.
DetailsSteps ==
  {"getLoanDetailsForEntry_findFirst", "getLoanDetailsForEntry_respond"}

\* C22: getLoanDetailsForEntry never persists: no step of it changes a loan
\* or an entry; and the calculatedInterestAmount and totalPendingInterest
\* it answers are the interestAmount and the newBalanceInterest the
\* calculator of createEntry gives for the same loan with zero payments.
C22_PreviewNeverPersists ==
  [][\A p \in Procs :
       /\ ((pc'[p] # pc[p] /\ (pc[p] \in DetailsSteps \/ pc'[p] \in DetailsSteps))
           => UNCHANGED <<loans, entries, nextLoanId, nextEntryId>>)
       /\ (pc[p] = "idle" /\ pc'[p] = "getLoanDetailsForEntry_findFirst")
           => LET c == calculateUpdatedLoanBalances(loans[req'[p].loanId], 0, 0)
              IN /\ req'[p].newInterestAmount = c.interestAmount
                 /\ req'[p].totalInterestAfterNewPeriod = c.newBalanceInterest
       /\ (pc[p] = "getLoanDetailsForEntry_respond" /\ pc'[p] = "idle")
           => LET d == calculateUpdatedLoanBalances(req[p].loan, 0, 0)
              IN /\ response' = 200
                 /\ req[p].newInterestAmount = d.interestAmount
                 /\ req[p].totalInterestAfterNewPeriod = d.newBalanceInterest]_vars

\* C22 witness: a preview of the loan standing at 90 with 10 pending is about
\* to answer 9 of new interest and 19 pending, and the loan row is as it was.
C22_Witness ==
  \E p \in Procs :
    /\ pc[p] = "getLoanDetailsForEntry_respond"
    /\ req[p].newInterestAmount = 9 /\ req[p].totalInterestAfterNewPeriod = 19
    /\ loans[1].balanceAmount = 90 /\ loans[1].balanceInterest = 10
    /\ loans[1].totalInterestAmount = 0

\* C23: the nextEntryDate of getLoanDetailsForEntry is the greatest
\* entryDate among the loan's entries that are not soft-deleted plus 30
\* days, or the loan's loanDate plus 30 days when it has no such entry;
\* soft-deleted entries do not count.
C23_NextEntryDate ==
  [][\A p \in Procs :
       (/\ pc[p] = "getLoanDetailsForEntry_findFirst"
        /\ pc'[p] = "getLoanDetailsForEntry_respond")
       => LET live == LiveEntriesOf(req[p].loanId)
          IN req'[p].nextEntryDate =
               (IF live # {} THEN LatestEntryDate(live) ELSE req[p].loanDate) + 30]_vars

\* C24: every loan enters the table with balanceAmount = loanAmount and
\* balanceInterest = 0, whatever the body of the creation request.
C24_CreatedAtPrincipal ==
  [][\A l \in (DOMAIN loans') \ (DOMAIN loans) :
       /\ loans'[l].balanceAmount = loans'[l].loanAmount
       /\ loans'[l].balanceInterest = 0]_vars

\* C25: soft-deleted rows are left out of every aggregate view: getEntries
\* returns no soft-deleted entry, getLoans returns no soft-deleted loan, and
\* the totalInterestAmount computed by getLoans and by getLoan is the sum
\* of receivedInterest over the entries that are not soft-deleted.
C25_ViewsExcludeDeleted ==
  [][\A p \in Procs :
       /\ (pc[p] = "idle" /\ pc'[p] = "getEntries_respond")
           => \A e \in DOMAIN req'[p].rows : req'[p].rows[e].deletedAt = NULL
       /\ (pc[p] = "idle" /\ pc'[p] = "getLoans_respond")
           => \A l \in DOMAIN req'[p].rows :
                /\ req'[p].rows[l].deletedAt = NULL
                /\ req'[p].rows[l].totalInterestAmount =
                     SumReceivedInterest(LiveEntriesOf(l))
       /\ (pc[p] = "getLoan_aggregate" /\ pc'[p] = "getLoan_respond")
           => req'[p].totalInterestAmount =
                SumReceivedInterest(LiveEntriesOf(req[p].loanId))]_vars

\* C26: the calculator exported by utils/loanCalculations.js and the one
\* createEntry uses agree: for the loan and the payments of every posting
\* they give the same newBalanceAmount, newBalanceInterest and
\* interestAmount.
C26_CalculatorsAgree ==
  [][\A p \in Procs :
       Commits(p) =>
         LET u == utilsCalculateUpdatedLoanBalances(
                    req[p].loan, req[p].receivedAmount, req[p].receivedInterest)
             row == loans'[req[p].loanId]
             e == entries'[req[p].entryId]
         IN /\ u.newBalanceAmount = row.balanceAmount
            /\ u.newBalanceInterest = row.balanceInterest
            /\ u.interestAmount = e.interestAmount]_vars

\* C27: referential integrity: in every state every entry row refers to a
\* loan row that is in the table, however postings interleave with
\* permanentlyDeleteLoan and emptyRecycleBin; a posting whose loan is hard
\* deleted under it inserts no entry.
C27_ReferentialIntegrity ==
  \A e \in DOMAIN entries : entries[e].loanId \in DOMAIN loans

\* C27 witness: a posting that had taken its entry id lost its loan to a
\* hard delete and ended in an error; the tables hold no loan and no entry.
C27_Witness ==
  /\ AllIdle /\ response \in {400, 500}
  /\ nextLoanId = 2 /\ loans = <<>>
  /\ nextEntryId = 2 /\ entries = <<>>

\* C28: permanentlyDeleteLoan never removes a loan that is live when its
\* delete commits: when it races with restoreLoan on the same soft-deleted
\* loan, a loan that has been restored, and its entries, stay in the tables.
C28_NoHardDeleteOfLiveLoan ==
  [][\A p \in Procs :
       (pc[p] = "permanentlyDeleteLoan_transaction" /\ pc'[p] = "idle")
       => \A l \in (DOMAIN loans) \ (DOMAIN loans') : loans[l].deletedAt # NULL]_vars

\* C29: of two concurrent deleteLoan calls on one live loan at most one
\* succeeds: a deleteLoan commits with 200 only on a loan that is live at
\* the commit, and a deletedAt once written on a loan is not overwritten by
\* another timestamp, so it stays that of the entries its cascade stamped.
C29_OneDeleteWins ==
  [][/\ (\A p \in Procs :
           (/\ pc[p] = "deleteLoan_transaction" /\ pc'[p] = "idle"
            /\ response' = 200)
           => loans[req[p].loanId].deletedAt = NULL)
     /\ (\A l \in (DOMAIN loans) \cap (DOMAIN loans') :
           (loans[l].deletedAt # NULL /\ loans'[l].deletedAt # NULL)
           => loans'[l].deletedAt = loans[l].deletedAt)]_vars

\* C30: away from updateLoan, the totalInterestAmount of a loan is the
\* balanceInterest it was created with plus the receivedInterest of every
\* committed posting, concurrent postings included: a loan enters the table
\* with totalInterestAmount = balanceInterest, and every step that is not
\* an updateLoan commit on the loan adds to it exactly the receivedInterest
\* of the entry of that loan it inserts, if any.
C30_TotalInterestIsSum ==
  [][/\ (\A l \in (DOMAIN loans') \ (DOMAIN loans) :
           loans'[l].totalInterestAmount = loans'[l].balanceInterest)
     /\ (\A l \in (DOMAIN loans) \cap (DOMAIN loans') :
           LET new == {e \in (DOMAIN entries') \ (DOMAIN entries) :
                         entries'[e].loanId = l}
               updated == \E p \in Procs :
                            /\ pc[p] = "updateLoan_update" /\ pc'[p] = "idle"
                            /\ req[p].loanId = l
           IN /\ Cardinality(new) <= 1
              /\ ~updated =>
                   loans'[l].totalInterestAmount =
                     loans[l].totalInterestAmount +
                       (IF new = {} THEN 0
                        ELSE entries'[CHOOSE e \in new : TRUE].receivedInterest))]_vars

\* C30 witness: two postings of 30 of interest read the same loan, created
\* with 5 of interest pending, before either committed; both committed and
\* the total stands at 5 + 30 + 30.
C30_Witness ==
  /\ AllIdle /\ response = 201
  /\ DOMAIN entries = {1, 2}
  /\ \A e \in DOMAIN entries :
       /\ entries[e].balanceAmount = 50 /\ entries[e].interestAmount = 5
       /\ entries[e].receivedInterest = 30 /\ entries[e].deletedAt = NULL
  /\ loans[1].totalInterestAmount = 65

====
